---------------------------- MODULE Spec2Model ----------------------------
(***************************************************************************)
(* Model of the decision engine of qsh_script.py: the tariff resolver      *)
(* (parse_rates_array, get_current_rate), the thermal-loss model           *)
(* (calc_room_loss, total_loss), the sensor/actuator ports                 *)
(* (fetch_ha_entity, set_ha_service, the MockHass fallback) and the        *)
(* Collect phase of sim_step (lines 199-222; the source of sim_step ends   *)
(* inside its zone loop at line 230, before the handler of its try block). *)
(*                                                                         *)
(* Number representation (Python floats become scaled integers):           *)
(*   outdoor / target / forecast temperatures : whole degrees C            *)
(*   tank temperature                         : tenths of a degree C       *)
(*   wind speed                               : whole km/h                 *)
(*   chill factor                             : hundredths (100 = 1.0)     *)
(*   tariff prices of the feed                : pence                      *)
(*   resolved rate                            : 1/10000 pound              *)
(*   room area : hundredths of m2, facing factor : tenths                  *)
(*   loss      : 10^-6 kW (area*delta*facing*chill/10, all scales folded)  *)
(* Only finite numbers are represented (no NaN, no infinity).              *)
(* A Python call that may raise returns a record [exc, val]; exc = "none"  *)
(* means a normal return.                                                  *)
(***************************************************************************)
EXTENDS Integers, Sequences, FiniteSets, TLC

VARIABLES
    pc,          \* position of the operation under study
    rates_str,   \* parse_rates_array: the raw argument
    parsed,      \* parse_rates_array: its outcome [exc, val]
    rates,       \* get_current_rate: the schedule argument
    now,         \* get_current_rate: the instant datetime.now() returned
    rate,        \* get_current_rate: its outcome [exc, val]
    hass,        \* the platform object: "ha" (injected) or "mock" (MockHass)
    data,        \* set_ha_service: the payload
    failing,     \* the entity ids whose service call raises on the platform
    calls,       \* the service calls issued so far, in order
    outcome,     \* set_ha_service: "none" or the exception that left it
    config,      \* the configuration passed to total_loss / sim_step
    loss_in,     \* total_loss: its arguments [ext_temp, target_temp, chill_factor]
    loss_out,    \* total_loss: its result
    states,      \* the platform's state machine: entity key -> state object
    current_hour,\* datetime.now().hour during the tick
    tick         \* sim_step: the values computed by lines 199-222

vars == <<pc, rates_str, parsed, rates, now, rate, hass, data, failing, calls, outcome,
          config, loss_in, loss_out, states, current_hour, tick>>

\* ------------------------------------------------------------ bounds
MaxRates == 2        \* longest schedule / longest 'rates' list of a payload
MaxIds == 2          \* longest entity_id list of a service payload
MaxForecast == 1     \* longest forecast list of the weather entity

\* ------------------------------------------------------------ helpers
Max(a, b) == IF a >= b THEN a ELSE b

SeqsUpTo(S, n) == UNION {[1..k -> S] : k \in 0..n}

Ok(v) == [exc |-> "none", val |-> v]

\* --------------------------------------------------- HOUSE_CONFIG (rates)
\* HOUSE_CONFIG['fallback_rates'], in 1/10000 pound
fallback_rates == [cheap |-> 1495, standard |-> 3048, peak |-> 4572, export |-> 1500]

\* ------------------------------------------------------- tariff resolver
\* An ISO-8601 timestamp string "day d, hh:00" is the pair <<d, hh>>.
\* Hour 24 is a string datetime.fromisoformat rejects.
Timestamps == {<<0, 0>>, <<0, 12>>, <<1, 0>>, <<0, 24>>}

Prices == {15, 30}   \* value_inc_vat, pence

\* datetime.fromisoformat(s): the instant in hours, or ValueError
fromisoformat(s) ==
    IF s[2] \in 0..23 THEN Ok(s[1] * 24 + s[2])
    ELSE [exc |-> "ValueError", val |-> 0]

\* A schedule entry as parse_rates_array returns it: (start, end, price)
Intervals == Timestamps \X Timestamps \X Prices

\* The instants datetime.now() may return (hours)
NowValues == {0, 6, 12, 18, 24, 30}

\* Mutant: the interval is closed at its end
BeforeOrAtEnd(n, e) == n <= e

\* now < datetime.fromisoformat(end)
BeforeEnd(n, e) == n < e

\* price / 100: pence to pounds (here 1/10000 pound)
PenceToPounds(price) == price * 100

\* Mutant: the cheap tier is the fallback
FallbackCheap == fallback_rates.cheap

\* HOUSE_CONFIG['fallback_rates']['standard']
Fallback == fallback_rates.standard

\* The loop of get_current_rate from entry i on. The chained comparison
\* start <= now < end evaluates fromisoformat(end) only when start <= now.
RECURSIVE RateScan(_, _, _)
RateScan(rs, i, n) ==
    IF i > Len(rs) THEN Ok(Fallback)
    ELSE LET start == fromisoformat(rs[i][1])
             end   == fromisoformat(rs[i][2])
             price == rs[i][3]
         IN  IF start.exc # "none" THEN start
             ELSE IF ~(start.val <= n) THEN RateScan(rs, i + 1, n)
             ELSE IF end.exc # "none" THEN end
             ELSE IF BeforeEnd(n, end.val) THEN Ok(PenceToPounds(price))
             ELSE RateScan(rs, i + 1, n)

get_current_rate(rs, n) == RateScan(rs, 1, n)

\* ------------------------------------------------------ parse_rates_array
\* A JSON value of the feed. t is its shape:
\*   "number", "array"      : not an object
\*   "object_no_rates"      : an object without the key 'rates'
\*   "object_rates_null"    : an object whose 'rates' is null
\*   "object"               : an object whose 'rates' is the list `rates`
Keys == {"start", "end", "value_inc_vat"}

\* An element of the 'rates' list: a dict with some of the keys, or not a dict
GoodEntries ==
    {[isdict |-> TRUE, keys |-> Keys, start |-> iv[1], end |-> iv[2],
      value_inc_vat |-> iv[3]] : iv \in {<<0, 0>>, <<0, 12>>} \X {<<0, 12>>, <<0, 24>>} \X Prices}

BadEntries ==
    {[isdict |-> TRUE, keys |-> Keys \ {k}, start |-> <<0, 0>>, end |-> <<0, 12>>,
      value_inc_vat |-> 15] : k \in Keys}
    \cup {[isdict |-> FALSE, keys |-> {}, start |-> <<0, 0>>, end |-> <<0, 12>>,
           value_inc_vat |-> 15]}

Entries == GoodEntries \cup BadEntries

JsonValues ==
    {[t |-> s, rates |-> <<>>] :
        s \in {"number", "array", "object_no_rates", "object_rates_null"}}
    \cup {[t |-> "object", rates |-> l] : l \in SeqsUpTo(Entries, MaxRates)}

\* The raw argument: None, a str (valid JSON text of `json`, or not JSON),
\* or an already decoded value.
RawInputs ==
    {[k |-> "None", valid |-> FALSE, json |-> [t |-> "number", rates |-> <<>>]],
     [k |-> "str", valid |-> FALSE, json |-> [t |-> "number", rates |-> <<>>]]}
    \cup {[k |-> "str", valid |-> TRUE, json |-> j] : j \in JsonValues}
    \cup {[k |-> "value", valid |-> TRUE, json |-> j] : j \in JsonValues}

\* json.loads(rates_str) if isinstance(rates_str, str) else rates_str
Decode(raw) ==
    IF raw.k = "str" /\ ~raw.valid THEN [exc |-> "JSONDecodeError", val |-> raw.json]
    ELSE Ok(raw.json)

\* (r['start'], r['end'], r['value_inc_vat'])
Triple(r) ==
    IF ~r.isdict THEN [exc |-> "TypeError", val |-> <<>>]
    ELSE IF Keys \subseteq r.keys THEN Ok(<<r.start, r.end, r.value_inc_vat>>)
    ELSE [exc |-> "KeyError", val |-> <<>>]

\* The list comprehension over the 'rates' list, from element i on
RECURSIVE Comprehension(_, _)
Comprehension(l, i) ==
    IF i > Len(l) THEN Ok(<<>>)
    ELSE LET t == Triple(l[i])
         IN  IF t.exc # "none" THEN t
             ELSE LET rest == Comprehension(l, i + 1)
                  IN  IF rest.exc # "none" THEN rest
                      ELSE Ok(<<t.val>> \o rest.val)

\* The body of the try block
ParseBody(raw) ==
    LET d == Decode(raw)
    IN  IF d.exc # "none" THEN [exc |-> d.exc, val |-> <<>>]
        ELSE IF d.val.t \in {"number", "array"}
             THEN [exc |-> "AttributeError", val |-> <<>>]   \* no .get
        ELSE IF d.val.t = "object_no_rates" THEN Ok(<<>>)     \* .get default []
        ELSE IF d.val.t = "object_rates_null"
             THEN [exc |-> "TypeError", val |-> <<>>]        \* None is not iterable
        ELSE Comprehension(d.val.rates, 1)

\* Mutant: the handler catches the JSON decode error only
CaughtDecodeErrorOnly(exc) == exc = "JSONDecodeError"

\* except Exception: every exception class raised in the try block derives
\* from Exception
Caught(exc) == exc \in {"JSONDecodeError", "AttributeError", "TypeError", "KeyError"}

parse_rates_array(raw) ==
    IF raw.k = "None" THEN Ok(<<>>)
    ELSE LET r == ParseBody(raw)
         IN  IF r.exc = "none" THEN r
             ELSE IF Caught(r.exc) THEN Ok(<<>>)
             ELSE r

\* ------------------------------------------------------- actuator port
\* The climate entities of HOUSE_CONFIG['entities'] (identifiers shortened)
EntityIds == {"va4240580352", "va0349246464", "va3553629184"}

\* data['entity_id']: absent (None), one identifier, or a list of distinct
\* identifiers
EntityIdValues ==
    {[k |-> "None", ids |-> <<>>]}
    \cup {[k |-> "str", ids |-> <<e>>] : e \in EntityIds}
    \cup {[k |-> "list", ids |-> l] :
            l \in {q \in SeqsUpTo(EntityIds, MaxIds) :
                      \A i, j \in 1..Len(q) : q[i] = q[j] => i = j}}

Payloads == {[entity_id |-> e, temperature |-> t] : e \in EntityIdValues, t \in {19, 21}}

\* hass.services.call(domain, service, d, blocking=True): MockHass logs a
\* warning and returns; the platform raises for a target it cannot serve.
ServiceCall(h, d, bad) ==
    IF h = "ha" /\ \E i \in 1..Len(d.entity_id.ids) : d.entity_id.ids[i] \in bad
    THEN "HomeAssistantError"
    ELSE "none"

\* The for loop of set_ha_service from element i on: the calls issued and
\* the exception that ends the loop, if any (the loop has no handler).
RECURSIVE FanOut(_, _, _, _)
FanOut(h, d, bad, i) ==
    IF i > Len(d.entity_id.ids) THEN [exc |-> "none", calls |-> <<>>]
    ELSE LET data_single == [d EXCEPT !.entity_id = [k |-> "str", ids |-> <<d.entity_id.ids[i]>>]]
             r == ServiceCall(h, data_single, bad)
         IN  IF r # "none" THEN [exc |-> r, calls |-> <<data_single>>]
             ELSE LET rest == FanOut(h, d, bad, i + 1)
                  IN  [exc |-> rest.exc, calls |-> <<data_single>> \o rest.calls]

set_ha_service(h, d, bad) ==
    IF d.entity_id.k = "list" THEN FanOut(h, d, bad, 1)
    ELSE [exc |-> ServiceCall(h, d, bad), calls |-> <<d>>]

\* ------------------------------------------------------- HOUSE_CONFIG
\* HOUSE_CONFIG['rooms'], hundredths of m2
rooms ==
    [lounge |-> 1948, open_plan_ground |-> 4214, utility |-> 340, cloaks |-> 251,
     bed1 |-> 1817, bed2 |-> 1359, bed3 |-> 1107, bed4 |-> 979, bathroom |-> 602,
     ensuite1 |-> 638, ensuite2 |-> 371, hall |-> 915, landing |-> 1009]

\* HOUSE_CONFIG['facings'], tenths
facings ==
    [lounge |-> 2, open_plan_ground |-> 10, utility |-> 5, cloaks |-> 5,
     bed1 |-> 2, bed2 |-> 10, bed3 |-> 5, bed4 |-> 5, bathroom |-> 2,
     ensuite1 |-> 5, ensuite2 |-> 10, hall |-> 2, landing |-> 2]

\* HOUSE_CONFIG['hot_water']: load_kw in tenths of a kW, ext_threshold in degrees
hot_water ==
    [load_kw |-> 25, ext_threshold |-> 3, cycle_start_hour |-> 0, cycle_end_hour |-> 6]

\* The keys of HOUSE_CONFIG['rooms'] in the order the dict holds them
room_order ==
    <<"lounge", "open_plan_ground", "utility", "cloaks", "bed1", "bed2", "bed3", "bed4",
      "bathroom", "ensuite1", "ensuite2", "hall", "landing">>

HOUSE_CONFIG ==
    [rooms |-> rooms, room_order |-> room_order, facings |-> facings,
     hot_water |-> hot_water]

\* target_temp = 21.0 (default of total_loss, constant of sim_step)
TargetTemp == 21

\* ---------------------------------------------------- thermal-loss model
\* dict.get(key, default)
Get(d, key, default) == IF key \in DOMAIN d THEN d[key] ELSE default

\* Mutant: the temperature difference is not clamped
Unclamped(delta_temp) == delta_temp

\* max(0, delta_temp)
ClampDelta(delta_temp) == Max(0, delta_temp)

\* calc_room_loss: area * max(0, delta_temp) * facing * chill_factor / 10
calc_room_loss(cfg, room, delta_temp, chill_factor) ==
    LET area   == Get(cfg.rooms, room, 0)
        facing == Get(cfg.facings, room, 10)
    IN  area * ClampDelta(delta_temp) * facing * chill_factor

\* sum(calc_room_loss(...) for room in config['rooms']) from the i-th room
\* on; room_order is the iteration order of the dict config['rooms']
RECURSIVE SumLoss(_, _, _, _)
SumLoss(cfg, i, delta, chill_factor) ==
    IF i > Len(cfg.room_order) THEN 0
    ELSE calc_room_loss(cfg, cfg.room_order[i], delta, chill_factor)
         + SumLoss(cfg, i + 1, delta, chill_factor)

total_loss(cfg, ext_temp, target_temp, chill_factor) ==
    LET delta == target_temp - ext_temp
    IN  SumLoss(cfg, 1, delta, chill_factor)

\* Configurations total_loss is applied to: the default one, one whose room
\* 'study' has no facing entry (facing defaults to 1.0), a single-room one.
LossConfigs ==
    {HOUSE_CONFIG,
     [rooms |-> [study |-> 1200, lounge |-> 1948], room_order |-> <<"study", "lounge">>,
      facings |-> [lounge |-> 2], hot_water |-> hot_water],
     [rooms |-> [hall |-> 915], room_order |-> <<"hall">>, facings |-> [hall |-> 2],
      hot_water |-> hot_water]}

LossInputs ==
    [ext_temp : {-3, 4, 18, 21, 25}, target_temp : {18, TargetTemp},
     chill_factor : {100, 133, 250}]

\* ----------------------------------------------------------- sensor port
\* A Python value read from the platform. k is its type:
\*   "None"; "num", a number v; "numstr", a str holding the decimal text of
\*   v (entity states are strings); "str", any other str s; "list", the list l.
PyNone == [k |-> "None", v |-> 0, s |-> "", l |-> <<>>]
Num(n) == [k |-> "num", v |-> n, s |-> "", l |-> <<>>]
NumStr(n) == [k |-> "numstr", v |-> n, s |-> "", l |-> <<>>]
Str(t) == [k |-> "str", v |-> 0, s |-> t, l |-> <<>>]
List(x) == [k |-> "list", v |-> 0, s |-> "", l |-> x]

\* Python truth value
Truthy(x) ==
    CASE x.k = "None"   -> FALSE
      [] x.k = "num"    -> x.v # 0
      [] x.k = "numstr" -> TRUE
      [] x.k = "str"    -> x.s # ""
      [] x.k = "list"   -> x.l # <<>>

\* x or default
Or(x, default) == IF Truthy(x) THEN x ELSE default

\* float(x)
Float(x) ==
    IF x.k \in {"num", "numstr"} THEN Ok(x.v)
    ELSE IF x.k = "str" THEN [exc |-> "ValueError", val |-> 0]
    ELSE [exc |-> "TypeError", val |-> 0]

\* A state object of the platform, or the absence of one (exists = FALSE)
NoAttributes ==
    [wind_speed |-> PyNone, forecast |-> PyNone, operation_mode |-> PyNone,
     current_temperature |-> PyNone]

Absent == [exists |-> FALSE, state |-> PyNone, attributes |-> NoAttributes]

StateOf(x) == [exists |-> TRUE, state |-> x, attributes |-> NoAttributes]

\* hass.states.get(entity_id). MockHass.states is the class States itself, so
\* its get(self, eid) receives entity_id as self and lacks eid: TypeError.
StatesGet(h, st, entity_id) ==
    IF h = "mock" THEN [exc |-> "TypeError", val |-> Absent]
    ELSE Ok(st[entity_id])

\* fetch_ha_entity(entity_id, attr); attr = "" stands for attr=None
fetch_ha_entity(h, st, entity_id, attr) ==
    LET state == StatesGet(h, st, entity_id)
    IN  IF state.exc # "none" THEN [exc |-> state.exc, val |-> PyNone]
        ELSE IF ~state.val.exists THEN Ok(PyNone)
        ELSE IF attr # "" THEN Ok(state.val.attributes[attr])
        ELSE Ok(state.val.state)

\* ------------------------------------------------- sim_step, lines 199-222
\* wind_speed ** 0.16 in hundredths, rounded, for the wind speeds read
Pow016(w) ==
    CASE w = 5 -> 129 [] w = 6 -> 133 [] w = 10 -> 145 [] w = 20 -> 161 [] w = 40 -> 180

\* Mutant: the formula is applied from 5 km/h on
WindAtLeastThreshold(wind_speed) == wind_speed >= 5

\* wind_speed > 5
WindAboveThreshold(wind_speed) == wind_speed > 5

\* effective_temp in 10^-6 degrees:
\* 13.12 + 0.6215*T - 11.37*w**0.16 + 0.3965*T*w**0.16
EffectiveTemp(ext_temp, wind_speed) ==
    13120000 + 621500 * ext_temp - 113700 * Pow016(wind_speed)
    + 3965 * ext_temp * Pow016(wind_speed)

\* Mutant: the chill delta is not clamped at 0
ChillDeltaUnclamped(ext_temp, effective_temp) == ext_temp * 1000000 - effective_temp

\* chill_delta = max(0, ext_temp - effective_temp), in 10^-6 degrees
ChillDelta(ext_temp, effective_temp) == Max(0, ext_temp * 1000000 - effective_temp)

\* chill_factor in hundredths: 1.0, or above the threshold
\* 1.0 + chill_delta / max(1, delta)
ChillFactor(ext_temp, wind_speed) ==
    LET delta == TargetTemp - ext_temp
    IN  IF WindAboveThreshold(wind_speed)
        THEN 100 + ChillDelta(ext_temp, EffectiveTemp(ext_temp, wind_speed))
                   \div (10000 * Max(1, delta))
        ELSE 100

\* An element of the forecast list: a dict with some of the keys
ForecastKeys == {"datetime", "temperature"}

ForecastEntries ==
    {[keys |-> ForecastKeys, datetime |-> <<0, 12>>, temperature |-> 2],
     [keys |-> ForecastKeys, datetime |-> <<1, 12>>, temperature |-> 8],
     [keys |-> {"datetime"}, datetime |-> <<0, 12>>, temperature |-> 0],
     [keys |-> {"temperature"}, datetime |-> <<0, 0>>, temperature |-> 2]}

\* [f['temperature'] for f in forecast if 'temperature' in f and
\*  (datetime.fromisoformat(f['datetime']) - datetime.now()) < timedelta(hours=h)]
\* from element i on; now is day 0 at the current hour
RECURSIVE ForecastTemps(_, _, _, _)
ForecastTemps(forecast, i, hour, h) ==
    IF i > Len(forecast) THEN Ok(<<>>)
    ELSE LET f == forecast[i]
             rest == ForecastTemps(forecast, i + 1, hour, h)
         IN  IF "temperature" \notin f.keys THEN rest
             ELSE IF "datetime" \notin f.keys THEN [exc |-> "KeyError", val |-> <<>>]
             ELSE LET dt == fromisoformat(f.datetime)
                  IN  IF dt.exc # "none" THEN [exc |-> dt.exc, val |-> <<>>]
                      ELSE IF ~(dt.val - hour < h) THEN rest
                      ELSE IF rest.exc # "none" THEN rest
                      ELSE Ok(<<f.temperature>> \o rest.val)

\* min(forecast_temps)
RECURSIVE MinOf(_)
MinOf(q) ==
    IF Len(q) = 1 THEN q[1]
    ELSE LET m == MinOf(Tail(q)) IN IF q[1] <= m THEN q[1] ELSE m

\* float(fetch_ha_entity(...) or default)
FloatOr(fetched, default) ==
    IF fetched.exc # "none" THEN [exc |-> fetched.exc, val |-> 0]
    ELSE Float(Or(fetched.val, Num(default)))

\* Mutant: the end hour of the cycle window is included
HotWaterNowClosed(hp_chosen, ext_temp, hour, hw) ==
    IF hp_chosen /\ ext_temp > hw.ext_threshold
       /\ hw.cycle_start_hour <= hour /\ hour <= hw.cycle_end_hour
    THEN 1 ELSE 0

\* line 222: hp_water_night
HotWaterNow(hp_chosen, ext_temp, hour, hw) ==
    IF hp_chosen /\ ext_temp > hw.ext_threshold
       /\ hw.cycle_start_hour <= hour /\ hour < hw.cycle_end_hour
    THEN 1 ELSE 0

\* The first exception of a sequence of outcomes, in evaluation order
RECURSIVE FirstExc(_)
FirstExc(q) ==
    IF q = <<>> THEN "none"
    ELSE IF q[1] # "none" THEN q[1]
    ELSE FirstExc(Tail(q))

NoTick ==
    [status |-> "idle", exc |-> "none", dfan_control |-> FALSE, ext_temp |-> 0,
     wind_speed |-> 0, chill_factor |-> 100, forecast |-> <<>>, forecast_min_temp |-> 0,
     upcoming_cold |-> FALSE, operation_mode |-> PyNone, tank_temp |-> 0,
     hot_water_active |-> 0, water_load |-> 0, hp_chosen |-> FALSE,
     hp_water_night |-> 0]

\* Lines 199-222 of sim_step. The statements have no side effect, so each is
\* evaluated on its own and the first exception in statement order is the
\* one that leaves the try block (status "raised").
sim_step(h, st, hour, cfg) ==
    LET f_toggle  == fetch_ha_entity(h, st, "dfan_control_toggle", "")
        ext       == FloatOr(fetch_ha_entity(h, st, "outdoor_temp", ""), 0)
        wind      == FloatOr(fetch_ha_entity(h, st, "forecast_weather", "wind_speed"), 0)
        f_fc      == fetch_ha_entity(h, st, "forecast_weather", "forecast")
        forecast  == Or(f_fc.val, List(<<>>)).l
        temps24   == ForecastTemps(forecast, 1, hour, 24)
        temps12   == ForecastTemps(forecast, 1, hour, 12)
        f_mode    == fetch_ha_entity(h, st, "water_heater", "operation_mode")
        mode      == Or(f_mode.val, Str("heat_pump"))
        tank      == FloatOr(fetch_ha_entity(h, st, "water_heater", "current_temperature"), 125)
        active    == IF mode = Str("high_demand") THEN 1 ELSE 0
        f_chosen  == fetch_ha_entity(h, st, "hp_water_tonight", "")
        chosen    == f_chosen.val = Str("on")
        exc       == FirstExc(<<f_toggle.exc, ext.exc, wind.exc, f_fc.exc, temps24.exc,
                                f_mode.exc, tank.exc, f_chosen.exc>>)
    IN  IF exc # "none" THEN [NoTick EXCEPT !.status = "raised", !.exc = exc]
        ELSE [status |-> "done", exc |-> "none",
              dfan_control |-> f_toggle.val = Str("on"),
              ext_temp |-> ext.val,
              wind_speed |-> wind.val,
              chill_factor |-> ChillFactor(ext.val, wind.val),
              forecast |-> forecast,
              forecast_min_temp |-> IF temps24.val # <<>> THEN MinOf(temps24.val) ELSE ext.val,
              upcoming_cold |-> \E i \in 1..Len(temps12.val) : temps12.val[i] < 5,
              operation_mode |-> mode,
              tank_temp |-> tank.val,
              hot_water_active |-> active,
              water_load |-> IF active # 0 THEN cfg.hot_water.load_kw ELSE 0,
              hp_chosen |-> chosen,
              hp_water_night |-> HotWaterNow(chosen, ext.val, hour, cfg.hot_water)]

\* The platform states a tick may find
OutdoorStates ==
    {Absent, StateOf(Str("unavailable"))} \cup {StateOf(NumStr(t)) : t \in {-3, 3, 4, 21, 25}}

WindReadings == {PyNone} \cup {Num(w) : w \in {0, 5, 6, 20}}

ForecastReadings == {PyNone} \cup {List(l) : l \in SeqsUpTo(ForecastEntries, MaxForecast)}

WeatherStates ==
    {Absent}
    \cup {[exists |-> TRUE, state |-> Str("cloudy"),
           attributes |-> [NoAttributes EXCEPT !.wind_speed = w, !.forecast = f]] :
            w \in WindReadings, f \in ForecastReadings}

WaterHeaterStates ==
    {Absent, StateOf(Str("on"))}
    \cup {[exists |-> TRUE, state |-> Str("on"),
           attributes |-> [NoAttributes EXCEPT !.operation_mode = Str(m),
                                               !.current_temperature = Num(450)]] :
            m \in {"high_demand", "eco"}}

FlagStates == {Absent, StateOf(Str("on")), StateOf(Str("off"))}

PlatformStates ==
    [outdoor_temp : OutdoorStates, forecast_weather : WeatherStates,
     water_heater : WaterHeaterStates, hp_water_tonight : FlagStates,
     dfan_control_toggle : {Absent, StateOf(Str("on"))}]

\* MockHass holds no state at all
NoStates ==
    [outdoor_temp |-> Absent, forecast_weather |-> Absent, water_heater |-> Absent,
     hp_water_tonight |-> Absent, dfan_control_toggle |-> Absent]

Hours == {0, 2, 5, 6, 7}

\* The configurations sim_step runs with: the default, and one whose
\* hot-water cycle starts at 2
TickConfigs ==
    {HOUSE_CONFIG,
     [HOUSE_CONFIG EXCEPT !.hot_water.cycle_start_hour = 2]}

\* ------------------------------------------------------------ idle values
IdleTariff ==
    /\ rates_str = [k |-> "None", valid |-> FALSE, json |-> [t |-> "number", rates |-> <<>>]]
    /\ parsed = Ok(<<>>)
    /\ rates = <<>>
    /\ now = 0
    /\ rate = Ok(0)

IdleDispatch ==
    /\ data = [entity_id |-> [k |-> "None", ids |-> <<>>], temperature |-> 19]
    /\ failing = {}
    /\ calls = <<>>
    /\ outcome = "none"

IdleLoss ==
    /\ loss_in = [ext_temp |-> 0, target_temp |-> TargetTemp, chill_factor |-> 100]
    /\ loss_out = 0

IdleTick ==
    /\ states = NoStates
    /\ current_hour = 0
    /\ tick = NoTick

tariffVars == <<rates_str, parsed, rates, now, rate>>
dispatchVars == <<data, failing, calls, outcome>>
lossVars == <<loss_in, loss_out>>
tickVars == <<states, current_hour, tick>>

\* ------------------------------------------------- parse_rates_array runs
InitParse ==
    /\ pc = "start"
    /\ hass = "ha"
    /\ config = HOUSE_CONFIG
    /\ rates_str \in RawInputs
    /\ parsed = Ok(<<>>)
    /\ rates = <<>>
    /\ now = 0
    /\ rate = Ok(0)
    /\ IdleDispatch
    /\ IdleLoss
    /\ IdleTick

ParseRatesArray ==
    /\ pc = "start"
    /\ parsed' = parse_rates_array(rates_str)
    /\ pc' = "parsed"
    /\ UNCHANGED <<rates_str, rates, now, rate, hass, config, dispatchVars, lossVars, tickVars>>

NextParse == ParseRatesArray

SpecParse == InitParse /\ [][NextParse]_vars

\* -------------------------------------------------- get_current_rate runs
InitRate ==
    /\ pc = "start"
    /\ hass = "ha"
    /\ config = HOUSE_CONFIG
    /\ rates_str = [k |-> "None", valid |-> FALSE, json |-> [t |-> "number", rates |-> <<>>]]
    /\ parsed = Ok(<<>>)
    /\ rates \in SeqsUpTo(Intervals, MaxRates)
    /\ now = 0
    /\ rate = Ok(0)
    /\ IdleDispatch
    /\ IdleLoss
    /\ IdleTick

GetCurrentRate ==
    /\ pc = "start"
    /\ \E n \in NowValues :
         /\ now' = n
         /\ rate' = get_current_rate(rates, n)
    /\ pc' = "rated"
    /\ UNCHANGED <<rates_str, parsed, rates, hass, config, dispatchVars, lossVars, tickVars>>

NextRate == GetCurrentRate

SpecRate == InitRate /\ [][NextRate]_vars

\* ---------------------------------------------------- set_ha_service runs
InitDispatch ==
    /\ pc = "start"
    /\ config = HOUSE_CONFIG
    /\ IdleTariff
    /\ IdleLoss
    /\ IdleTick
    /\ data \in Payloads
    /\ \/ hass = "ha" /\ failing \in SUBSET EntityIds
       \/ hass = "mock" /\ failing = {}
    /\ calls = <<>>
    /\ outcome = "none"

SetHaService ==
    /\ pc = "start"
    /\ LET r == set_ha_service(hass, data, failing)
       IN  /\ calls' = r.calls
           /\ outcome' = r.exc
    /\ pc' = "dispatched"
    /\ UNCHANGED <<tariffVars, hass, config, data, failing, lossVars, tickVars>>

NextDispatch == SetHaService

SpecDispatch == InitDispatch /\ [][NextDispatch]_vars

\* -------------------------------------------------------- total_loss runs
InitLoss ==
    /\ pc = "start"
    /\ hass = "ha"
    /\ IdleTariff
    /\ IdleDispatch
    /\ IdleTick
    /\ config \in LossConfigs
    /\ loss_in \in LossInputs
    /\ loss_out = 0

TotalLoss ==
    /\ pc = "start"
    /\ loss_out' = total_loss(config, loss_in.ext_temp, loss_in.target_temp,
                              loss_in.chill_factor)
    /\ pc' = "summed"
    /\ UNCHANGED <<tariffVars, dispatchVars, tickVars, hass, config, loss_in>>

NextLoss == TotalLoss

SpecLoss == InitLoss /\ [][NextLoss]_vars

\* ---------------------------------------------------------- sim_step runs
InitTick ==
    /\ pc = "start"
    /\ IdleTariff
    /\ IdleDispatch
    /\ IdleLoss
    /\ \/ hass = "ha" /\ states \in PlatformStates
       \/ hass = "mock" /\ states = NoStates
    /\ current_hour \in Hours
    /\ config \in TickConfigs
    /\ tick = NoTick

SimStep ==
    /\ pc = "start"
    /\ tick' = sim_step(hass, states, current_hour, config)
    /\ pc' = "collected"
    /\ UNCHANGED <<tariffVars, dispatchVars, lossVars, hass, config, states, current_hour>>

NextTick == SimStep

SpecTick == InitTick /\ [][NextTick]_vars

\* ------------------------------------------------------- the whole program
Init == InitParse \/ InitRate \/ InitDispatch \/ InitLoss \/ InitTick

Next == ParseRatesArray \/ GetCurrentRate \/ SetHaService \/ TotalLoss \/ SimStep

Spec == Init /\ [][Next]_vars

\* =================================================================== claims
\* What the claims say of a schedule, stated without the scanning loop:
\* a timestamp that parses, its instant, an interval containing an instant.
Parses(ts) == ts[2] >= 0 /\ ts[2] <= 23

Instant(ts) == 24 * ts[1] + ts[2]

WellFormed(rs) == \A i \in 1..Len(rs) : Parses(rs[i][1]) /\ Parses(rs[i][2])

Contains(iv, n) == Instant(iv[1]) <= n /\ n < Instant(iv[2])

\* C1: for a schedule whose timestamps all parse, get_current_rate returns
\* price/100 of the first interval in schedule order whose half-open range
\* [start, end) contains now (start included, end excluded).
C1_FirstContainingIntervalWins ==
    (pc = "rated" /\ WellFormed(rates)) =>
        \A i \in 1..Len(rates) :
            (Contains(rates[i], now) /\ \A j \in 1..(i - 1) : ~Contains(rates[j], now))
                => rate = [exc |-> "none", val |-> 100 * rates[i][3]]

\* C1 witness: two intervals of different price both contain now, now is the
\* start of the first, and the first one's price was returned.
C1_Witness ==
    /\ pc = "rated"
    /\ Len(rates) = 2
    /\ WellFormed(rates)
    /\ Contains(rates[1], now) /\ Contains(rates[2], now)
    /\ now = Instant(rates[1][1])
    /\ rates[1][3] # rates[2][3]
    /\ rate = [exc |-> "none", val |-> 100 * rates[1][3]]

\* C2: for a schedule whose timestamps all parse, get_current_rate returns
\* exactly the 'standard' fallback price (0.3048, no other tier) whenever
\* the schedule is empty or now lies outside every interval, the end of the
\* last interval included.
C2_StandardFallbackOutsideAllIntervals ==
    (pc = "rated" /\ WellFormed(rates) /\ \A i \in 1..Len(rates) : ~Contains(rates[i], now))
        => /\ rate = [exc |-> "none", val |-> fallback_rates.standard]
           /\ rate.val \notin {fallback_rates.cheap, fallback_rates.peak, fallback_rates.export}

\* C2 witness: now is exactly the end of the last interval, which starts
\* before now, and the standard fallback was returned.
C2_Witness ==
    /\ pc = "rated"
    /\ Len(rates) >= 1
    /\ WellFormed(rates)
    /\ Instant(rates[Len(rates)][1]) < now
    /\ now = Instant(rates[Len(rates)][2])
    /\ rate = [exc |-> "none", val |-> 3048]

\* A payload parse_rates_array accepts: a decoded object (or valid JSON text
\* of one) whose 'rates' is a list of dicts that carry all three keys.
IsCompleteEntry(r) == r.isdict /\ r.keys = {"start", "end", "value_inc_vat"}

IsRatesObject(raw) == raw.k # "None" /\ raw.valid /\ raw.json.t = "object"

IsWellFormedPayload(raw) ==
    /\ IsRatesObject(raw)
    /\ \A i \in 1..Len(raw.json.rates) : IsCompleteEntry(raw.json.rates[i])

TriplesOf(l) == [i \in 1..Len(l) |-> <<l[i].start, l[i].end, l[i].value_inc_vat>>]

\* C3: parse_rates_array never raises; a well-formed payload yields its
\* (start, end, value_inc_vat) triples in feed order; every other raw input
\* (None, invalid JSON, a non-object, no 'rates' list, an entry lacking a
\* key) yields the empty schedule.
C3_ParseFailsSoft ==
    pc = "parsed" =>
        /\ parsed.exc = "none"
        /\ IF IsWellFormedPayload(rates_str)
           THEN parsed.val = TriplesOf(rates_str.json.rates)
           ELSE parsed.val = <<>>

\* C3 witness: a 'rates' list whose first entry is complete and whose second
\* lacks a key was parsed to the empty schedule without an exception.
C3_Witness ==
    /\ pc = "parsed"
    /\ IsRatesObject(rates_str)
    /\ Len(rates_str.json.rates) = 2
    /\ IsCompleteEntry(rates_str.json.rates[1])
    /\ rates_str.json.rates[2].isdict
    /\ ~IsCompleteEntry(rates_str.json.rates[2])
    /\ parsed = [exc |-> "none", val |-> <<>>]

\* C9: when a payload holds a malformed entry among valid ones, only the
\* offending entry is skipped: the schedule returned holds every valid entry
\* of the payload, in order.
C9_OnlyOffendingEntrySkipped ==
    (pc = "parsed" /\ IsRatesObject(rates_str)) =>
        parsed.val = TriplesOf(SelectSeq(rates_str.json.rates, IsCompleteEntry))

\* C5: for every configuration and (finite) chill factor, when the outdoor
\* temperature is at or above the target, no room contributes a loss and
\* total_loss returns 0; no room's loss and no total is ever negative.
C5_NoLossAtOrAboveTarget ==
    pc = "summed" =>
        /\ loss_out >= 0
        /\ \A room \in DOMAIN config.rooms :
              calc_room_loss(config, room, loss_in.target_temp - loss_in.ext_temp,
                             loss_in.chill_factor) >= 0
        /\ loss_in.ext_temp >= loss_in.target_temp => loss_out = 0

\* C5 witness: the default configuration, outdoor temperature strictly above
\* the target, a chill factor of 2.5, and a total of 0.
C5_Witness ==
    /\ pc = "summed"
    /\ config = HOUSE_CONFIG
    /\ loss_in.ext_temp > loss_in.target_temp
    /\ loss_in.chill_factor = 250
    /\ loss_out = 0

\* C4: in a tick that completes its collection, a wind speed of at most
\* 5 km/h (5 itself and the default 0 of an absent reading included) gives a
\* chill factor of exactly 1.0, whatever the outdoor temperature.
C4_NoChillAtOrBelowThreshold ==
    (pc = "collected" /\ tick.status = "done" /\ tick.wind_speed <= 5)
        => tick.chill_factor = 100

\* C4 witness: a wind reading of exactly 5 km/h at -3 degrees, chill factor 1.0.
C4_Witness ==
    /\ pc = "collected"
    /\ tick.status = "done"
    /\ states.forecast_weather.attributes.wind_speed.k = "num"
    /\ tick.wind_speed = 5
    /\ tick.ext_temp = -3
    /\ tick.chill_factor = 100

\* C6: hp_water_night is 1 exactly when the 'tonight' flag entity reads
\* 'on', the outdoor temperature is strictly above hot_water.ext_threshold
\* and cycle_start_hour <= hour < cycle_end_hour; it is 0 otherwise, in
\* particular when the flag entity is absent.
C6_HotWaterNowIffFlagWarmAndInWindow ==
    (pc = "collected" /\ tick.status = "done") =>
        /\ tick.hp_water_night \in {0, 1}
        /\ tick.hp_water_night = 1 <=>
              /\ states.hp_water_tonight.exists
              /\ states.hp_water_tonight.state.k = "str"
              /\ states.hp_water_tonight.state.s = "on"
              /\ tick.ext_temp > config.hot_water.ext_threshold
              /\ config.hot_water.cycle_start_hour <= current_hour
              /\ current_hour < config.hot_water.cycle_end_hour

\* C6 witness: window [0, 6), hour 2, flag on, 4 degrees against a threshold
\* of 3: hot water is allowed now.
C6_Witness ==
    /\ pc = "collected"
    /\ tick.status = "done"
    /\ config.hot_water.cycle_start_hour = 0
    /\ config.hot_water.cycle_end_hour = 6
    /\ current_hour = 2
    /\ tick.ext_temp = 4
    /\ tick.hp_chosen
    /\ tick.hp_water_night = 1

\* C10: the chill factor a tick computes is at least 1.0 for every outdoor
\* temperature and wind speed, so total_loss with it is never smaller than
\* total_loss with chill factor 1.0 at the same temperatures.
C10_ChillFactorAmplifiesOnly ==
    (pc = "collected" /\ tick.status = "done") =>
        /\ tick.chill_factor >= 100
        /\ total_loss(config, tick.ext_temp, TargetTemp, tick.chill_factor)
              >= total_loss(config, tick.ext_temp, TargetTemp, 100)

\* C10 witness: wind above the threshold gives a chill factor above 1.0 and
\* a strictly larger total loss.
C10_Witness ==
    /\ pc = "collected"
    /\ tick.status = "done"
    /\ tick.wind_speed > 5
    /\ tick.chill_factor > 100
    /\ total_loss(config, tick.ext_temp, TargetTemp, tick.chill_factor)
          > total_loss(config, tick.ext_temp, TargetTemp, 100)

\* C7: for a payload whose entity_id is a list, set_ha_service issues one
\* call per identifier, in list order, each with a copy of the payload that
\* carries that identifier alone; every identifier is attempted even when an
\* earlier call fails.
C7_EveryIdentifierAttempted ==
    (pc = "dispatched" /\ data.entity_id.k = "list") =>
        calls = [i \in 1..Len(data.entity_id.ids) |->
                    [entity_id |-> [k |-> "str", ids |-> <<data.entity_id.ids[i]>>],
                     temperature |-> data.temperature]]

\* C7 when no call of the list fails: the fan-out itself (one call per
\* identifier, in order, each a copy with that identifier alone).
C7_FanOutWhenNoCallFails ==
    (pc = "dispatched" /\ data.entity_id.k = "list" /\ outcome = "none") =>
        C7_EveryIdentifierAttempted

\* The readings of a tick that raise although the entity is present: a state
\* that float() rejects, a forecast entry with a temperature and no datetime.
MalformedReading ==
    \/ states.outdoor_temp.exists /\ states.outdoor_temp.state.k = "str"
    \/ \E i \in 1..Len(states.forecast_weather.attributes.forecast.l) :
          LET f == states.forecast_weather.attributes.forecast.l[i]
          IN  "temperature" \in f.keys /\ "datetime" \notin f.keys

AbsentReadingsDefaulted ==
    /\ \A e \in DOMAIN states :
          \A attr \in {"", "wind_speed", "forecast", "operation_mode", "current_temperature"} :
              ~states[e].exists =>
                  fetch_ha_entity(hass, states, e, attr) = [exc |-> "none", val |-> PyNone]
    /\ ~MalformedReading =>
          /\ tick.status = "done"
          /\ ~states.outdoor_temp.exists => tick.ext_temp = 0
          /\ ~states.forecast_weather.exists =>
                /\ tick.wind_speed = 0
                /\ tick.forecast = <<>>
                /\ tick.forecast_min_temp = tick.ext_temp
                /\ ~tick.upcoming_cold
          /\ ~states.water_heater.exists =>
                /\ tick.operation_mode = Str("heat_pump")
                /\ tick.tank_temp = 125

\* C8: fetch_ha_entity never raises for an absent entity (it returns None,
\* with or without an attribute), and a tick replaces every absent reading
\* by its default without being abandoned: outdoor temperature 0.0, wind
\* speed 0.0, forecast [] (forecast minimum = outdoor temperature, no
\* upcoming cold), operation mode 'heat_pump', tank temperature 12.5.
C8_AbsentNeverRaisesAndIsDefaulted ==
    pc = "collected" => AbsentReadingsDefaulted

\* C8 on the injected platform alone (hass.states.get returns None for an
\* unknown entity): the same statement with the MockHass fallback left out.
C8_OnInjectedPlatform ==
    (pc = "collected" /\ hass = "ha") => AbsentReadingsDefaulted

\* C8 on the injected platform, a state reached: every entity absent, the
\* tick done with all five defaults.
C8_OnInjectedPlatformReached ==
    /\ pc = "collected"
    /\ hass = "ha"
    /\ states = NoStates
    /\ tick.status = "done"
    /\ tick.ext_temp = 0 /\ tick.wind_speed = 0 /\ tick.tank_temp = 125

=============================================================================
